---- MODULE Spec2Model ----
(***************************************************************************)
(* Model of frequenz.client.reporting._client: the batch flattener         *)
(* (ComponentsDataBatch), the request builder and the streaming generators *)
(* of ReportingApiClient.                                                  *)
(*                                                                         *)
(* Encodings.  A Python Optional is a sequence of length at most one:      *)
(* <<>> is None (or an unset message field), <<v>> is the value v.  A      *)
(* Python str built by an f-string is the sequence of its pieces, so that  *)
(* "X_bound_0_lower" is <<"X", "_bound_", "0", "_lower">> and the plain    *)
(* label "X" is <<"X">>.  A datetime is [t, tzinfo] with tzinfo "naive" or *)
(* "utc".  A timedelta is a number of half seconds, so that round() has    *)
(* ties to break.                                                          *)
(***************************************************************************)
EXTENDS Integers, Sequences, FiniteSets, TLC

VARIABLES
    batch,       \* SpecBatch: the response wrapped by the ComponentsDataBatch under test
    called,      \* SpecBatch: which method of the batch has been called
    emptyResult, \* SpecBatch: Optional result of is_empty()
    out,         \* SpecBatch: what __iter__ yielded, each sample with the loop position that yielded it
    args,        \* the keyword arguments of the entry point
    request,     \* Optional request built by _list_microgrid_components_data_batch
    responses,   \* the response messages the transport holds for this call
    recv,        \* how many of them the generator has received
    stream,      \* the streaming call: "none", "open", "exhausted", "failed", "cancelled"
    pc,          \* where the generators stand: "init", "await", "batch", "suspended", "closed"
    cur,         \* the samples of the batch the public generator is iterating
    pos,         \* how many of them it has yielded
    delivered,   \* every sample the caller has received, in order
    caller,      \* "iterating", "done" (end of sequence), "raised", "abandoned"
    holdsRef,    \* an abandoning caller still references the generator object
    failedAfter  \* Optional number of responses received when the RPC error was raised

vars == <<batch, called, emptyResult, out, args, request, responses, recv, stream,
          pc, cur, pos, delivered, caller, holdsRef, failedAfter>>

batchVars == <<batch, called, emptyResult, out>>
streamVars == <<responses, recv, stream, pc, cur, pos, delivered, caller, holdsRef, failedAfter>>
requestVars == <<args, request>>

(***************************************************************************)
(* Bounds of the model.                                                    *)
(***************************************************************************)
MaxComponents == 2
MaxMetricSamples == 2
MaxStates == 1
MaxBounds == 2
MaxCodes == 2
MaxResponses == 2
MaxTime == 2
MaxHalfSeconds == 3

SeqsUpTo(S, n) == UNION {[1..k -> S] : k \in 0..n}

RECURSIVE Flat(_)
Flat(ss) == IF ss = <<>> THEN <<>> ELSE Head(ss) \o Flat(Tail(ss))

IsPrefix(s, t) == Len(s) <= Len(t) /\ SubSeq(t, 1, Len(s)) = s

None == <<>>
Some(v) == <<v>>

(***************************************************************************)
(* Python and protobuf primitives used by the client.                      *)
(***************************************************************************)
\* Timestamp.ToDatetime(): a naive datetime holding the UTC wall time.
ToDatetime(ts) == [t |-> ts.seconds, tzinfo |-> "naive"]

\* datetime.replace(tzinfo=timezone.utc)
ReplaceTzUtc(dt) == [dt EXCEPT !.tzinfo = "utc"]

\* Metric.from_proto(code).name: the catalog is an external collaborator;
\* two of its entries stand for it.
MetricName(code) == IF code = 1 THEN "X" ELSE "Y"

\* bool(x) of a protobuf double field: unset reads as 0.0, and 0.0 is falsy.
FloatTruthy(x) == x # 0

\* bool(m) of a protobuf message or sub-message: the generated classes define
\* neither __bool__ nor __len__, so every message object is truthy, set or not.
MessageTruthy(m) == TRUE

\* msample.value.simple_metric.value: reading the member of the oneof that
\* is not set returns a default instance, whose value is 0.0.
SimpleMetricValue(msample) == IF msample.variant = "simple" THEN msample.value ELSE 0

MetricSample(ts, mid, cid, met, value) ==
    [timestamp |-> ts, microgrid_id |-> mid, component_id |-> cid,
     metric |-> met, value |-> value]

(***************************************************************************)
(* ComponentsDataBatch                                                     *)
(***************************************************************************)
IsEmptyAllComponents(data) ==
    \A i \in 1..Len(data.components) :
        /\ data.components[i].metric_samples = <<>>
        /\ data.components[i].states = <<>>

is_empty(data) ==
    IF data.components = <<>> THEN TRUE
    ELSE IF /\ data.components[1].metric_samples = <<>>
            /\ data.components[1].states = <<>> THEN TRUE
    ELSE FALSE

\* The loop position of a yield: component ci, "metric" or "state" loop,
\* element k of it, then for a bound its enumerate index b and side, for a
\* state value its category and index b within the category.
At(ci, part, k, b, side) == [c |-> ci, part |-> part, k |-> k, b |-> b, side |-> side]

BoundItemsSwapped(ts, mid, cid, met, ci, mi, i, bound) ==
    (IF FloatTruthy(bound.lower)
     THEN <<[sample |-> MetricSample(ts, mid, cid, <<met, "_bound_", ToString(i), "_upper">>, Some(bound.upper)),
             at |-> At(ci, "metric", mi, i, "lower")]>>
     ELSE <<>>)
    \o
    (IF FloatTruthy(bound.upper)
     THEN <<[sample |-> MetricSample(ts, mid, cid, <<met, "_bound_", ToString(i), "_lower">>, Some(bound.lower)),
             at |-> At(ci, "metric", mi, i, "upper")]>>
     ELSE <<>>)

\* Lines 110-125: the body of `for i, bound in enumerate(msample.bounds)`.
BoundItems(ts, mid, cid, met, ci, mi, i, bound) ==
    (IF FloatTruthy(bound.lower)
     THEN <<[sample |-> MetricSample(ts, mid, cid, <<met, "_bound_", ToString(i), "_lower">>, Some(bound.lower)),
             at |-> At(ci, "metric", mi, i, "lower")]>>
     ELSE <<>>)
    \o
    (IF FloatTruthy(bound.upper)
     THEN <<[sample |-> MetricSample(ts, mid, cid, <<met, "_bound_", ToString(i), "_upper">>, Some(bound.upper)),
             at |-> At(ci, "metric", mi, i, "upper")]>>
     ELSE <<>>)

\* Lines 92-125: the body of `for msample in cdata.metric_samples`.
MetricItems(mid, cid, ci, mi, msample) ==
    LET ts == ReplaceTzUtc(ToDatetime(msample.sampled_at))
        met == MetricName(msample.metric)
        value == IF MessageTruthy(msample) THEN Some(SimpleMetricValue(msample)) ELSE None
    IN  <<[sample |-> MetricSample(ts, mid, cid, <<met>>, value),
           at |-> At(ci, "metric", mi, -1, "primary")]>>
        \o Flat([j \in 1..Len(msample.bounds) |->
                    BoundItems(ts, mid, cid, met, ci, mi, j - 1, msample.bounds[j])])

\* The dict literal of lines 128-132, in insertion order.
Categories(state) ==
    << <<"state", state.states>>, <<"warning", state.warnings>>, <<"error", state.errors>> >>

CategoryItems(ts, mid, cid, ci, si, name, category) ==
    [j \in 1..Len(category) |->
        [sample |-> MetricSample(ts, mid, cid, <<name>>, Some(category[j])),
         at |-> At(ci, "state", si, j, name)]]

StateItemsErrorsFirst(mid, cid, ci, si, state) ==
    LET ts == ToDatetime(state.sampled_at)
        cats == << <<"error", state.errors>>, <<"state", state.states>>, <<"warning", state.warnings>> >>
    IN  Flat([n \in 1..Len(cats) |->
                CategoryItems(ts, mid, cid, ci, si, cats[n][1], cats[n][2])])

\* Lines 127-145: the body of `for state in cdata.states`.  A repeated field
\* is always an Iterable, so the isinstance test never skips a category.
StateItems(mid, cid, ci, si, state) ==
    LET ts == ToDatetime(state.sampled_at)
        cats == Categories(state)
    IN  Flat([n \in 1..Len(cats) |->
                CategoryItems(ts, mid, cid, ci, si, cats[n][1], cats[n][2])])

ComponentItemsStatesFirst(mid, ci, cdata) ==
    LET cid == cdata.component_id
    IN  Flat([si \in 1..Len(cdata.states) |->
                StateItems(mid, cid, ci, si, cdata.states[si])])
        \o
        Flat([mi \in 1..Len(cdata.metric_samples) |->
                MetricItems(mid, cid, ci, mi, cdata.metric_samples[mi])])

\* Lines 90-145: the body of `for cdata in data.components`.
ComponentItems(mid, ci, cdata) ==
    LET cid == cdata.component_id
    IN  Flat([mi \in 1..Len(cdata.metric_samples) |->
                MetricItems(mid, cid, ci, mi, cdata.metric_samples[mi])])
        \o
        Flat([si \in 1..Len(cdata.states) |->
                StateItems(mid, cid, ci, si, cdata.states[si])])

\* ComponentsDataBatch.__iter__, every yield with its loop position.
IterTagged(data) ==
    Flat([ci \in 1..Len(data.components) |->
            ComponentItems(data.microgrid_id, ci, data.components[ci])])

\* ComponentsDataBatch.__iter__: the samples the caller sees.
Iter(data) == LET tagged == IterTagged(data) IN [i \in 1..Len(tagged) |-> tagged[i].sample]

(***************************************************************************)
(* The request built by _list_microgrid_components_data_batch.             *)
(***************************************************************************)
\* dt2ts: Timestamp.FromDatetime(dt); a naive datetime is read as UTC.
dt2ts(dt) == [seconds |-> dt.t, nanos |-> 0]

\* bool(x) of an Optional[datetime]: None is falsy, and datetime defines no
\* __bool__, so every datetime (the epoch too) is truthy.
OptDatetimeTruthy(x) == x # None

\* PBTimeFilter(start=..., end=...): a keyword argument of None leaves the
\* field unset.
TimeFilter(start_dt, end_dt) ==
    [start |-> IF OptDatetimeTruthy(start_dt) THEN Some(dt2ts(start_dt[1])) ELSE None,
     end |-> IF OptDatetimeTruthy(end_dt) THEN Some(dt2ts(end_dt[1])) ELSE None]

\* round(resampling_period.total_seconds()) of a period of h half seconds:
\* Python rounds a tie to the even integer.
RoundSeconds(h) ==
    IF h % 2 = 0 THEN h \div 2
    ELSE IF ((h - 1) \div 2) % 2 = 0 THEN (h - 1) \div 2 ELSE (h + 1) \div 2

ResolutionIfTruthy(resampling_period) ==
    IF resampling_period # None /\ resampling_period[1] # 0
    THEN Some(RoundSeconds(resampling_period[1])) ELSE None

\* Lines 318-322: the resolution handed to PBResamplingOptions.
Resolution(resampling_period) ==
    IF resampling_period # None THEN Some(RoundSeconds(resampling_period[1])) ELSE None

FilterOption(include) == IF include THEN "FILTER_OPTION_INCLUDE" ELSE "FILTER_OPTION_EXCLUDE"

BuildRequest(a) ==
    [microgrid_components |->
        [i \in 1..Len(a.microgrid_components) |->
            [microgrid_id |-> a.microgrid_components[i][1],
             component_ids |-> a.microgrid_components[i][2]]],
     metrics |-> [i \in 1..Len(a.metrics) |-> [metric |-> a.metrics[i], connections |-> <<>>]],
     filter |->
        [time_filter |-> TimeFilter(a.start_dt, a.end_dt),
         resampling_options |-> [resolution |-> Resolution(a.resampling_period)],
         include_options |-> [bounds |-> FilterOption(a.include_bounds),
                              states |-> FilterOption(a.include_states)]]]

(***************************************************************************)
(* Response messages the service can send.                                 *)
(***************************************************************************)
Bound(lo, up) == [lower |-> lo, upper |-> up]

MSample(at, code, variant, value, bounds) ==
    [sampled_at |-> [seconds |-> at], metric |-> code, variant |-> variant,
     value |-> value, bounds |-> bounds]

StateEntry(at, states, warnings, errors) ==
    [sampled_at |-> [seconds |-> at], states |-> states, warnings |-> warnings,
     errors |-> errors]

Component(cid, msamples, states) ==
    [component_id |-> cid, metric_samples |-> msamples, states |-> states]

Response(mid, components) == [microgrid_id |-> mid, components |-> components]

sampleX == MSample(100, 1, "simple", 3, <<>>)
sampleY == MSample(160, 2, "simple", 4, <<Bound(5, 10)>>)
stateS == StateEntry(100, <<1>>, <<2>>, <<>>)

\* Responses of up to MaxComponents components, each empty, or holding
\* metric samples only, states only, or both.
ComponentBodies ==
    {<<<<>>, <<>>>>, <<<<sampleX>>, <<>>>>, <<<<>>, <<stateS>>>>,
     <<<<sampleY, sampleX>>, <<stateS>>>>}

ManyComponentResponses ==
    {Response(1, [i \in 1..Len(bs) |-> Component(i + 1, bs[i][1], bs[i][2])]) :
        bs \in SeqsUpTo(ComponentBodies, MaxComponents)}

\* Responses with one component of up to MaxMetricSamples metric samples
\* and up to MaxStates state entries.
OneComponentResponses ==
    {Response(7, <<Component(2, ms, st)>>) :
        ms \in SeqsUpTo({sampleX, sampleY}, MaxMetricSamples),
        st \in SeqsUpTo({stateS}, MaxStates)}

ShapeResponses == ManyComponentResponses \cup OneComponentResponses

\* Responses with one component whose first metric sample carries up to
\* MaxBounds bounds, of either value variant.
BoundVals == {0, 5, 10}

BoundResponses ==
    {Response(1, <<Component(cid, <<MSample(100, 1, variant, 3, bs)>> \o rest, <<>>)>>) :
        cid \in {2, 3}, variant \in {"simple", "aggregated"},
        bs \in SeqsUpTo({Bound(lo, up) : lo \in BoundVals, up \in BoundVals}, MaxBounds),
        rest \in {<<>>, <<sampleY>>}}

\* Responses with one component and one state entry of up to MaxCodes
\* codes per category.
Codes == {1, 2}

StateResponses ==
    {Response(1, <<Component(2, ms, <<StateEntry(130, st, wa, er)>>)>>) :
        ms \in {<<>>, <<sampleX>>},
        st \in SeqsUpTo(Codes, MaxCodes), wa \in SeqsUpTo(Codes, MaxCodes),
        er \in SeqsUpTo(Codes, MaxCodes)}

InputResponses == ShapeResponses \cup BoundResponses \cup StateResponses

(***************************************************************************)
(* Idle values of the variables a specification does not use.              *)
(***************************************************************************)
Args(start, end, period, states, bounds) ==
    [microgrid_components |-> << <<1, <<2>>>> >>, metrics |-> <<1>>,
     start_dt |-> start, end_dt |-> end, resampling_period |-> period,
     include_states |-> states, include_bounds |-> bounds]

NoArgs == Args(None, None, None, FALSE, FALSE)

BatchIdle ==
    /\ batch = Response(1, <<>>)
    /\ called = "none"
    /\ emptyResult = None
    /\ out = <<>>

RequestIdle ==
    /\ args = NoArgs
    /\ request = None

StreamIdle ==
    /\ responses = <<>>
    /\ recv = 0
    /\ stream = "none"
    /\ pc = "init"
    /\ cur = <<>>
    /\ pos = 0
    /\ delivered = <<>>
    /\ caller = "iterating"
    /\ holdsRef = FALSE
    /\ failedAfter = None

(***************************************************************************)
(* SpecBatch: one ComponentsDataBatch and the calls of its two methods.    *)
(***************************************************************************)
InitBatch ==
    /\ batch \in InputResponses
    /\ called = "none"
    /\ emptyResult = None
    /\ out = <<>>
    /\ RequestIdle
    /\ StreamIdle

CallIsEmpty ==
    /\ called = "none"
    /\ called' = "is_empty"
    /\ emptyResult' = Some(is_empty(batch))
    /\ UNCHANGED <<batch, out, requestVars, streamVars>>

CallIter ==
    /\ called = "none"
    /\ called' = "iter"
    /\ out' = IterTagged(batch)
    /\ UNCHANGED <<batch, emptyResult, requestVars, streamVars>>

NextBatch == CallIsEmpty \/ CallIter

SpecBatch == InitBatch /\ [][NextBatch]_vars

(***************************************************************************)
(* Properties of the flattener, checked under SpecBatch.                   *)
(***************************************************************************)
\* The positions of `out` whose yield came from loop position (ci, part, k).
Positions(ci, part, k) ==
    {i \in 1..Len(out) : out[i].at.c = ci /\ out[i].at.part = part /\ out[i].at.k = k}

\* The samples of a set of positions that is an interval of `out`, in order.
SamplesAt(P) ==
    IF P = {} THEN <<>>
    ELSE LET lo == CHOOSE i \in P : \A j \in P : i <= j
         IN  [n \in 1..Cardinality(P) |-> out[lo + n - 1].sample]

IsInterval(P) == \A i \in P, j \in P : \A m \in i..j : m \in P

\* a yielded before b agrees with the order the claim gives.
InClaimedOrder(a, b) ==
    /\ a.c <= b.c
    /\ a.c = b.c =>
        /\ a.part = "state" => b.part = "state"
        /\ a.part = b.part => a.k <= b.k
        /\ (a.part = "metric" /\ b.part = "metric" /\ a.k = b.k) => b.side # "primary"

\* C2: __iter__ yields components in response order; within a component every
\* metric-derived sample (in response order) before every state-category
\* sample; and the bound samples of a metric sample directly after its
\* primary sample, before the next primary sample.
C2_FlattenOrder ==
    called = "iter" =>
        /\ \A i \in 1..Len(out), j \in 1..Len(out) :
                i < j => InClaimedOrder(out[i].at, out[j].at)
        /\ \A i \in 1..Len(out) :
                /\ out[i].at.c \in 1..Len(batch.components)
                /\ out[i].sample.component_id = batch.components[out[i].at.c].component_id
                /\ out[i].at.part = "metric" =>
                      out[i].sample.metric[1] =
                          MetricName(batch.components[out[i].at.c].metric_samples[out[i].at.k].metric)
        /\ \A j \in 1..Len(out) :
                (out[j].at.part = "metric" /\ out[j].at.side # "primary") =>
                    \E i \in 1..(j - 1) :
                        /\ out[i].at = At(out[j].at.c, "metric", out[j].at.k, -1, "primary")
                        /\ \A m \in (i + 1)..j :
                              out[m].at.part = "metric" /\ out[m].at.side # "primary"

C2_Witness ==
    /\ called = "iter"
    /\ Len(batch.components) = 2
    /\ batch.components[1].metric_samples = <<sampleY, sampleX>>
    /\ batch.components[1].states = <<stateS>>
    /\ batch.components[2].metric_samples = <<sampleX>>
    /\ Len(out) = 7
    /\ out[3].at.side = "upper"
    /\ out[5].at.part = "state"

ExpectedBoundSamples(primary, M, B) ==
    LET slots == [n \in 1..(2 * Len(B)) |->
                    [i |-> (n - 1) \div 2,
                     side |-> IF n % 2 = 1 THEN "_lower" ELSE "_upper",
                     v |-> IF n % 2 = 1 THEN B[((n - 1) \div 2) + 1].lower
                                        ELSE B[((n - 1) \div 2) + 1].upper]]
        Kept(slot) == slot.v # 0
        kept == SelectSeq(slots, Kept)
    IN  [n \in 1..Len(kept) |->
            [primary EXCEPT !.metric = <<M, "_bound_", ToString(kept[n].i), kept[n].side>>,
                            !.value = Some(kept[n].v)]]

\* C7: after the primary sample M of a metric sample with bounds B come, for
\* each index i in order, "M_bound_i_lower" then "M_bound_i_upper" for the
\* sides whose value is non-zero, each with that value and the primary's
\* timestamp, microgrid id and component id; a zero side yields nothing.
C7_BoundSamples ==
    called = "iter" =>
        \A ci \in 1..Len(batch.components) :
            \A mi \in 1..Len(batch.components[ci].metric_samples) :
                LET ms == batch.components[ci].metric_samples[mi]
                    P == Positions(ci, "metric", mi)
                    got == SamplesAt(P)
                IN  /\ P # {}
                    /\ IsInterval(P)
                    /\ got[1].metric = <<MetricName(ms.metric)>>
                    /\ got[1].microgrid_id = batch.microgrid_id
                    /\ got[1].component_id = batch.components[ci].component_id
                    /\ Tail(got) = ExpectedBoundSamples(got[1], MetricName(ms.metric), ms.bounds)

C7_Witness ==
    /\ called = "iter"
    /\ batch = Response(1, <<Component(2, <<MSample(100, 1, "simple", 3, <<Bound(5, 10)>>)>>, <<>>)>>)
    /\ Len(out) = 3
    /\ out[1].sample.metric = <<"X">>
    /\ out[2].sample.metric = <<"X", "_bound_", "0", "_lower">>
    /\ out[2].sample.value = Some(5)
    /\ out[3].sample.metric = <<"X", "_bound_", "0", "_upper">>
    /\ out[3].sample.value = Some(10)

C7_WitnessZeroSide ==
    /\ called = "iter"
    /\ \E ci \in 1..Len(batch.components) :
          /\ Len(batch.components[ci].metric_samples) = 1
          /\ batch.components[ci].metric_samples[1].bounds = <<Bound(0, 10), Bound(5, 0)>>
    /\ Len(out) = 3

\* What the claim expects of one state entry: a "state" sample per state
\* code, then a "warning" sample per warning, then an "error" sample per
\* error, values unchanged.
ExpectedStateLabels(state) ==
    [n \in 1..Len(state.states) |-> <<"state", state.states[n]>>]
    \o [n \in 1..Len(state.warnings) |-> <<"warning", state.warnings[n]>>]
    \o [n \in 1..Len(state.errors) |-> <<"error", state.errors[n]>>]

\* C8: a state entry yields its categories in the order state, warning,
\* error, one sample per contained value, labelled with the category name
\* and carrying the value unchanged: |states| + |warnings| + |errors| samples.
C8_StateSamples ==
    called = "iter" =>
        \A ci \in 1..Len(batch.components) :
            \A si \in 1..Len(batch.components[ci].states) :
                LET st == batch.components[ci].states[si]
                    P == Positions(ci, "state", si)
                    got == SamplesAt(P)
                IN  /\ IsInterval(P)
                    /\ Len(got) = Len(st.states) + Len(st.warnings) + Len(st.errors)
                    /\ [n \in 1..Len(got) |-> <<got[n].metric[1], got[n].value[1]>>]
                          = ExpectedStateLabels(st)
                    /\ \A n \in 1..Len(got) : Len(got[n].metric) = 1 /\ Len(got[n].value) = 1

C8_Witness ==
    /\ called = "iter"
    /\ batch = Response(1, <<Component(2, <<>>, <<StateEntry(130, <<1, 2>>, <<2>>, <<>>)>>)>>)
    /\ Len(out) = 3
    /\ out[1].sample.metric = <<"state">>
    /\ out[2].sample.metric = <<"state">>
    /\ out[3].sample.metric = <<"warning">>

\* C9: every sample __iter__ yields, from a metric sample, a bound or a
\* state/warning/error entry, carries a UTC-aware timestamp.
C9_AllTimestampsUtc ==
    called = "iter" =>
        \A i \in 1..Len(out) : out[i].sample.timestamp.tzinfo = "utc"

\* C11: a metric sample whose value is of a variant other than the simple
\* metric is flattened without an exception to a primary sample whose value
\* is null, and the rest of the batch (its bounds, the samples after it)
\* is still emitted.
C11_UnsupportedVariantIsNull ==
    called = "iter" =>
        \A ci \in 1..Len(batch.components) :
            \A mi \in 1..Len(batch.components[ci].metric_samples) :
                LET ms == batch.components[ci].metric_samples[mi]
                    P == Positions(ci, "metric", mi)
                IN  ms.variant # "simple" =>
                        /\ P # {}
                        /\ SamplesAt(P)[1].metric = <<MetricName(ms.metric)>>
                        /\ SamplesAt(P)[1].value = None
                        /\ \A mj \in (mi + 1)..Len(batch.components[ci].metric_samples) :
                              Positions(ci, "metric", mj) # {}

(***************************************************************************)
(* The streaming generators.  list_single_component_data and               *)
(* list_microgrid_components_data have the same body: an `async for` over  *)
(* _list_microgrid_components_data_batch with a `for entry in batch: yield *)
(* entry` inside.  One flow of control runs through the caller, the public *)
(* generator, the batch generator and the transport:                       *)
(*   pc = "init"       the generator object exists, nothing has run        *)
(*   pc = "await"      the batch generator awaits the stream's next item   *)
(*   pc = "batch"      the public generator is in `for entry in batch`     *)
(*   pc = "suspended"  the public generator stands at `yield entry`, the   *)
(*                     batch generator at `yield ComponentsDataBatch(..)`  *)
(*   pc = "closed"     both generators have finished                       *)
(***************************************************************************)
StreamResponses ==
    {Response(1, <<>>),
     Response(1, <<Component(2, <<>>, <<>>)>>),
     Response(1, <<Component(2, <<sampleX>>, <<>>)>>),
     Response(1, <<Component(2, <<>>, <<>>), Component(3, <<sampleX>>, <<>>)>>),
     Response(1, <<Component(2, <<sampleY>>, <<stateS>>)>>)}

\* The caller's first __anext__: lines 285-347, the request is built and the
\* streaming call is opened.
Start ==
    /\ pc = "init"
    /\ caller = "iterating"
    /\ request' = Some(BuildRequest(args))
    /\ stream' = "open"
    /\ pc' = "await"
    /\ UNCHANGED <<batchVars, args, responses, recv, cur, pos, delivered, caller,
                   holdsRef, failedAfter>>

\* The caller's first __anext__ when opening the call raises AioRpcError:
\* the raise is inside the try of line 341, the handler of lines 353-355
\* prints and returns, and both generators end.
StartOpenFails ==
    /\ pc = "init"
    /\ caller = "iterating"
    /\ request' = Some(BuildRequest(args))
    /\ stream' = "failed"
    /\ failedAfter' = Some(0)
    /\ pc' = "closed"
    /\ caller' = "done"
    /\ UNCHANGED <<batchVars, args, responses, recv, cur, pos, delivered, holdsRef>>

DeliverDropsFirst ==
    /\ pc = "await"
    /\ recv < Len(responses)
    /\ recv' = recv + 1
    /\ LET response == responses[recv + 1]
       IN  IF ~MessageTruthy(response)
           THEN /\ pc' = "closed"
                /\ caller' = "done"
                /\ UNCHANGED <<cur, pos>>
           ELSE /\ cur' = IF Iter(response) = <<>> THEN <<>> ELSE Tail(Iter(response))
                /\ pos' = 0
                /\ pc' = "batch"
                /\ UNCHANGED caller
    /\ UNCHANGED <<batchVars, requestVars, responses, stream, delivered, holdsRef, failedAfter>>

\* Lines 348-351 and 199/243, 208/252: the stream hands over its next
\* response; a falsy response breaks out of the loop, any other is wrapped,
\* yielded to the public generator, and its `for entry in batch` begins.
Deliver ==
    /\ pc = "await"
    /\ recv < Len(responses)
    /\ recv' = recv + 1
    /\ LET response == responses[recv + 1]
       IN  IF ~MessageTruthy(response)
           THEN /\ pc' = "closed"
                /\ caller' = "done"
                /\ UNCHANGED <<cur, pos>>
           ELSE /\ cur' = Iter(response)
                /\ pos' = 0
                /\ pc' = "batch"
                /\ UNCHANGED caller
    /\ UNCHANGED <<batchVars, requestVars, responses, stream, delivered, holdsRef, failedAfter>>

\* Line 348: the stream is exhausted; both `async for` loops end and the
\* caller's __anext__ raises StopAsyncIteration.
End ==
    /\ pc = "await"
    /\ recv = Len(responses)
    /\ stream' = "exhausted"
    /\ pc' = "closed"
    /\ caller' = "done"
    /\ UNCHANGED <<batchVars, requestVars, responses, recv, cur, pos, delivered,
                   holdsRef, failedAfter>>

ErrorPropagates ==
    /\ pc = "await"
    /\ stream' = "failed"
    /\ failedAfter' = Some(recv)
    /\ pc' = "closed"
    /\ caller' = "raised"
    /\ UNCHANGED <<batchVars, requestVars, responses, recv, cur, pos, delivered, holdsRef>>

\* Lines 348, 353-355: the stream raises AioRpcError instead of handing
\* over an item; the handler prints and returns, which ends both generators
\* as a normal end of sequence.
Error ==
    /\ pc = "await"
    /\ stream' = "failed"
    /\ failedAfter' = Some(recv)
    /\ pc' = "closed"
    /\ caller' = "done"
    /\ UNCHANGED <<batchVars, requestVars, responses, recv, cur, pos, delivered, holdsRef>>

\* Lines 208-209 / 252-253: `for entry in batch: yield entry` hands the
\* next sample to the caller.
YieldEntry ==
    /\ pc = "batch"
    /\ pos < Len(cur)
    /\ delivered' = Append(delivered, cur[pos + 1])
    /\ pos' = pos + 1
    /\ pc' = "suspended"
    /\ UNCHANGED <<batchVars, requestVars, responses, recv, stream, cur, caller,
                   holdsRef, failedAfter>>

\* The batch is exhausted: the public generator asks the batch generator
\* for the next batch, which resumes after line 351 and awaits the stream.
BatchDone ==
    /\ pc = "batch"
    /\ pos = Len(cur)
    /\ pc' = "await"
    /\ UNCHANGED <<batchVars, requestVars, responses, recv, stream, cur, pos, delivered,
                   caller, holdsRef, failedAfter>>

\* The caller asks for the next sample.
Resume ==
    /\ pc = "suspended"
    /\ caller = "iterating"
    /\ pc' = "batch"
    /\ UNCHANGED <<batchVars, requestVars, responses, recv, stream, cur, pos, delivered,
                   caller, holdsRef, failedAfter>>

\* The caller stops iterating with the stream not exhausted (a `break` out
\* of its `async for`, or no further __anext__), and keeps or drops its
\* reference to the generator object.  No code of the client runs: neither
\* generator has a finally, a context manager or a cancel() of the call.
Abandon ==
    /\ pc = "suspended"
    /\ caller = "iterating"
    /\ caller' = "abandoned"
    /\ holdsRef' \in BOOLEAN
    /\ UNCHANGED <<batchVars, requestVars, responses, recv, stream, pc, cur, pos,
                   delivered, failedAfter>>

\* The runtime finalizes the unreferenced generators: GeneratorExit is
\* raised at lines 209/253 and 351, `except AioRpcError` does not catch it,
\* the frames are dropped and the call object, now garbage, is cancelled.
Finalize ==
    /\ pc = "suspended"
    /\ caller = "abandoned"
    /\ ~holdsRef
    /\ pc' = "closed"
    /\ stream' = "cancelled"
    /\ UNCHANGED <<batchVars, requestVars, responses, recv, cur, pos, delivered, caller,
                   holdsRef, failedAfter>>

Next ==
    \/ Start
    \/ StartOpenFails
    \/ Deliver
    \/ End
    \/ Error
    \/ YieldEntry
    \/ BatchDone
    \/ Resume
    \/ Abandon
    \/ Finalize

InitStreamState ==
    /\ recv = 0
    /\ stream = "none"
    /\ pc = "init"
    /\ cur = <<>>
    /\ pos = 0
    /\ delivered = <<>>
    /\ caller = "iterating"
    /\ holdsRef = FALSE
    /\ failedAfter = None
    /\ request = None

\* Spec: one call of a public entry point over every stream of up to
\* MaxResponses responses.
Init ==
    /\ BatchIdle
    /\ args \in {NoArgs, Args(Some([t |-> 0, tzinfo |-> "naive"]), None, Some(2), TRUE, TRUE)}
    /\ responses \in SeqsUpTo(StreamResponses, MaxResponses)
    /\ InitStreamState

Spec == Init /\ [][Next]_vars

\* SpecRequest: one call of a public entry point for every combination of
\* start_dt, end_dt, resampling_period and the include flags.
Datetimes == {[t |-> n, tzinfo |-> "naive"] : n \in 0..MaxTime}

OptionalOf(S) == {None} \cup {Some(x) : x \in S}

InitRequest ==
    /\ BatchIdle
    /\ args \in {Args(sd, ed, rp, st, bo) :
                    sd \in OptionalOf(Datetimes), ed \in OptionalOf(Datetimes),
                    rp \in OptionalOf(0..MaxHalfSeconds),
                    st \in BOOLEAN, bo \in BOOLEAN}
    /\ responses = <<Response(1, <<Component(2, <<sampleX>>, <<>>)>>)>>
    /\ InitStreamState

SpecRequest == InitRequest /\ [][Next]_vars

(***************************************************************************)
(* Properties of the streaming generators, checked under Spec.             *)
(***************************************************************************)
\* The flattening of each response, concatenated in stream order.
AllSamples(rs) == Flat([i \in 1..Len(rs) |-> Iter(rs[i])])

\* C1: at every point of the iteration the samples delivered so far are a
\* prefix of the concatenation of the flattened responses, and after a
\* normal end of stream they are the whole concatenation.
C1_ContinuousSequence ==
    /\ IsPrefix(delivered, AllSamples(responses))
    /\ pc = "await" => delivered = AllSamples(SubSeq(responses, 1, recv))
    /\ (caller = "done" /\ stream = "exhausted") => delivered = AllSamples(responses)

C1_Witness ==
    /\ caller = "done"
    /\ stream = "exhausted"
    /\ Len(responses) = 2
    /\ Len(Iter(responses[1])) >= 2
    /\ Len(Iter(responses[2])) >= 1
    /\ Len(delivered) >= 3

\* C3: an RPC error on opening the call or after k responses ends the
\* iteration as a normal end of sequence: nothing is raised to the caller,
\* every sample of the k responses has been delivered and nothing follows.
C3_RpcErrorEndsQuietly ==
    /\ caller # "raised"
    /\ failedAfter # None =>
          /\ caller = "done"
          /\ pc = "closed"
          /\ stream = "failed"
          /\ delivered = AllSamples(SubSeq(responses, 1, failedAfter[1]))

C3_Witness ==
    /\ failedAfter = Some(1)
    /\ Len(responses) = 2
    /\ Len(delivered) >= 2
    /\ Len(Iter(responses[2])) >= 1
    /\ caller = "done"

\* No step of the caller, the generators or the runtime is left.
Final ==
    \/ caller = "done"
    \/ caller = "raised"
    \/ caller = "abandoned" /\ (holdsRef \/ pc = "closed")

\* C4: once the caller has stopped iterating (end of stream, transport
\* error or early abandonment) no final state leaves the stream open.
C4_StreamReleased ==
    Final => stream # "open"

\* C5: a response whose is_empty() is true contributes no sample: what the
\* caller receives is drawn from the non-empty responses alone.
C5_EmptyBatchesContributeNothing ==
    LET NonEmpty(r) == ~is_empty(r)
    IN  IsPrefix(delivered, AllSamples(SelectSeq(responses, NonEmpty)))

(***************************************************************************)
(* Properties of the request, checked under SpecRequest.                   *)
(***************************************************************************)
\* C10: start, end and resolution are each set in the request exactly when
\* the corresponding argument is not None, independently of the others; a
\* None argument leaves its field unset, never zero.
C10_FieldPresence ==
    request # None =>
        LET f == request[1].filter
        IN  /\ Len(f.time_filter.start) = (IF args.start_dt = None THEN 0 ELSE 1)
            /\ Len(f.time_filter.end) = (IF args.end_dt = None THEN 0 ELSE 1)
            /\ Len(f.resampling_options.resolution) =
                  (IF args.resampling_period = None THEN 0 ELSE 1)
            /\ args.start_dt # None => f.time_filter.start[1].seconds = args.start_dt[1].t
            /\ args.end_dt # None => f.time_filter.end[1].seconds = args.end_dt[1].t

C10_Witness ==
    /\ request # None
    /\ args.start_dt = None
    /\ args.end_dt = None
    /\ args.resampling_period = None
    /\ request[1].filter.time_filter = [start |-> None, end |-> None]
    /\ request[1].filter.resampling_options = [resolution |-> None]

====
